---- MODULE Spec2Model ----
(***************************************************************************)
(* Model of the geofence lookup engine (internal/data MmdbReader): the     *)
(* atomic active-handle slot, LookupCountry, Close, reload and the watcher *)
(* goroutine started by startWatcher, together with the database file and  *)
(* the fsnotify channels that drive them.                                  *)
(***************************************************************************)
EXTENDS Integers, Sequences, FiniteSets, TLC

\* ------------------------------------------------------------------ bounds
MaxReplace == 1      \* replacements of the database file
MaxPending == 1      \* events waiting to be received from watcher.Events
NumCallers == 1      \* concurrent LookupCountry callers
MaxInFlight == 1     \* requests in flight on each of the two servers

Callers == 1 .. NumCallers
\* One handle from NewMmdbReader and at most one per replacement of the file.
Handles == 1 .. (MaxReplace + 1)
NoHandle == 0        \* the nil *geoip2.Reader

\* ------------------------------------------------------- the database file
\* Valid database files: two country databases with different data.
Contents   == {"dbA", "dbB"}
FileStates == Contents \cup {"invalid", "missing"}

IPv4Known == "2.125.160.216"
IPv6Known == "2001:218::"
IPUnknown == "10.0.0.1"      \* no database has a record for it
Addrs     == {IPv4Known, IPv6Known, IPUnknown}

\* The record.Country.IsoCode the database holds for an address; "" when the
\* database has no record, in which case Reader.Country returns a zero record.
IsoCode(c, ip) ==
    CASE c = "dbA" /\ ip = IPv4Known -> "GB"
      [] c = "dbA" /\ ip = IPv6Known -> "JP"
      [] c = "dbB" /\ ip = IPv4Known -> "FR"
      [] c = "dbB" /\ ip = IPv6Known -> "JP"
      [] OTHER -> ""

HasRecord(c, ip) == IsoCode(c, ip) # ""

\* Base name of the watched path and a sibling file in the same directory.
BaseName == "base"
FileNames == {BaseName, "sibling"}
Ops == {"create", "write", "rename", "remove", "chmod"}

\* fsnotify events. What is waiting in watcher.Events is kept by its cause:
\* "replaced" for the create or write that a replacement of the database file
\* raises, "other" for any other event in the directory; the event itself is
\* drawn when the loop receives it.
Event(o, name) == [op |-> {o}, name |-> name]
ReplaceEvents == {Event(o, BaseName) : o \in {"create", "write"}}
OtherEvents ==
    {Event(o, BaseName) : o \in Ops \ {"create", "write"}}
        \cup {Event(o, "sibling") : o \in Ops}
EventsOf(cause) == IF cause = "replaced" THEN ReplaceEvents ELSE OtherEvents

VARIABLES
    file,       \* what is at r.path on disk
    nReplace,   \* replacements done so far
    replWatched,\* the last replacement happened under an established watch
    content,    \* content[h]: the database a handle was opened from ("none": not opened)
    rel,        \* rel[h]: how many times Close was called on handle h
    nOpened,    \* handles opened so far
    db,         \* r.db, the atomic.Pointer slot
    ctor,       \* position of NewMmdbReader
    wstate,     \* the fsnotify watcher: "none", "watching", "closed"
    events,     \* watcher.Events
    chOpen,     \* watcher.Events / watcher.Errors still open
    errs,       \* fsnotify is sending an error on watcher.Errors (unbuffered)
    done,       \* r.done is closed
    wpc,        \* position of the watcher goroutine
    owed,       \* matching events received that reload has not yet tried to open the file for
    wNew,       \* reload: newDB
    wOld,       \* reload: oldDB
    cpc,        \* position of the Close call ("panicked": a second call crashed)
    cH,         \* Close: the handle r.db.Load() returned
    q,          \* q[i]: the LookupCountry call caller i is in
    ret,        \* what the step just taken returned to a LookupCountry caller
    cret,       \* what the step just taken returned to the caller of Close
    svc,        \* the process running main: its position, servers and requests
    hreq,       \* transport handlers: the request being served
    hlk,        \* transport handlers: what the CountryLookup they hold answers
    hresp,      \* transport handlers: the response written
    gresp,      \* the gRPC handler: what Check returned
    readyFn,    \* the health handler: the readiness function it was given
    hready,     \* the health handler: what GET /ready answered
    hhealth     \* the health handler: what GET /health answered

vars == <<file, nReplace, replWatched, content, rel, nOpened, db, ctor,
          wstate, events, chOpen, errs, done, wpc, owed, wNew, wOld, cpc, cH, q, ret,
          cret, hreq, hlk, hresp, gresp, readyFn, hready, hhealth, svc>>

fileVars    == <<file, nReplace, replWatched>>
handleVars  == <<content, rel, nOpened>>
chanVars    == <<events, chOpen, errs>>
reloadVars  == <<wNew, wOld, owed>>
closeVars   == <<cpc, cH>>
handlerVars == <<hreq, hlk, hresp, gresp, readyFn, hready, hhealth, svc>>
engineVars  == <<fileVars, handleVars, db, ctor, wstate, chanVars, done, wpc,
                 reloadVars, closeVars, q, ret, cret>>

\* A caller not inside LookupCountry, and the output of a step in which no
\* LookupCountry call returns.
IdleCall == [pc |-> "idle", h |-> NoHandle, loads |-> 0]
NoReturn == [ip |-> "", h |-> NoHandle, loads |-> 0, active |-> FALSE,
             kind |-> "none", country |-> ""]

\* The output of a step in which Close does not return: h is the handle
\* Close released, failed whether releasing it failed, err whether Close
\* returned a non-nil error.
NoCloseReturn == [kind |-> "none", h |-> NoHandle, failed |-> FALSE, err |-> FALSE]

\* No request is being served. A request body is valid JSON or not (json),
\* and a JSON body has or lacks the keys "ip" and "allowed_countries".
NoRequest  == [json |-> FALSE, hasIP |-> FALSE, ip |-> "",
               hasAllowed |-> FALSE, allowed |-> <<>>]
NoLookup   == [country |-> "", err |-> FALSE]
NoResponse == [status |-> 0, allowed |-> FALSE, country |-> "", error |-> "",
               calls |-> 0]

\* Check has not returned: code is the status code of the error returned
\* ("OK" with a nil error), hasResp whether a response message came with it.
NoGrpcReturn == [code |-> "none", message |-> "", hasResp |-> FALSE,
                 allowed |-> FALSE, country |-> "", error |-> "", calls |-> 0]

\* A probe has not been answered.
NoProbe == [status |-> 0, body |-> ""]

EngineInit ==
    /\ file \in FileStates
    /\ nReplace = 0
    /\ replWatched = FALSE
    /\ content = [h \in Handles |-> "none"]
    /\ rel = [h \in Handles |-> 0]
    /\ nOpened = 0
    /\ db = NoHandle
    /\ ctor = "idle"
    /\ wstate = "none"
    /\ events = <<>>
    /\ chOpen = FALSE
    /\ errs = FALSE
    /\ done = FALSE
    /\ wpc = "none"
    /\ wNew = NoHandle
    /\ wOld = NoHandle
    /\ cpc = "idle"
    /\ cH = NoHandle
    /\ q = [i \in Callers |-> IdleCall]
    /\ ret = NoReturn
    /\ cret = NoCloseReturn
    /\ owed = 0

\* main at its first statement, with MMDB_PATH unset or set.
ServiceStart(path) ==
    [pc |-> "getenv", path |-> path, load |-> "pending", engine |-> "none",
     http |-> "off", grpc |-> "off", hIn |-> 0, gIn |-> 0, sig |-> "none",
     exit |-> "none", looked |-> {}, drained |-> {}]

Init ==
    /\ EngineInit
    /\ svc = ServiceStart("set")
    /\ hreq = NoRequest
    /\ hlk = NoLookup
    /\ hresp = NoResponse
    /\ gresp = NoGrpcReturn
    /\ readyFn = "nil"
    /\ hready = NoProbe
    /\ hhealth = NoProbe

NoLookupReturns == ret' = NoReturn
NoCloseReturns == cret' = NoCloseReturn

\* ------------------------------------------------------------ geoip2 library
\* geoip2.Open succeeds exactly on a valid MMDB file.
CanOpen == file \in Contents

\* Reader.Close: unmaps the file.
CloseHandle(h) ==
    rel' = [rel EXCEPT ![h] = IF @ < 2 THEN @ + 1 ELSE @]

IsOpen(h) == h # NoHandle /\ content[h] # "none" /\ rel[h] = 0

\* Variant: the query only handles 4-byte addresses and errors on IPv6.
Country_V4Only(c, ip) ==
    IF ip # IPv6Known
    THEN [kind |-> "ok", iso |-> IsoCode(c, ip)]
    ELSE [kind |-> "err", iso |-> ""]

\* Reader.Country on an open handle of a country database: the record found
\* for the address, the zero record when there is none, and a nil error.
Country(c, ip) == [kind |-> "ok", iso |-> IsoCode(c, ip)]

\* Reader.Country on a handle whose mapping was released: the library either
\* notices and returns an error, or the access to the unmapped file faults.
ReleasedOutcomes == {"err", "fault"}


\* ------------------------------------------------------------ NewMmdbReader
\* Variant: the watcher is started before the result of Open is looked at.
NewMmdbReaderOpenFails_StartsWatcher ==
    /\ ctor = "idle"
    /\ ~CanOpen
    /\ ctor' = "failed"
    /\ wstate' = "watching"
    /\ chOpen' = TRUE
    /\ wpc' = "select"
    /\ UNCHANGED <<fileVars, handleVars, db, events, errs, done,
                   reloadVars, closeVars, q>>
    /\ NoLookupReturns
    /\ NoCloseReturns
    /\ UNCHANGED handlerVars

\* geoip2.Open(path) fails: NewMmdbReader returns (nil, err).
NewMmdbReaderOpenFails ==
    /\ ctor = "idle"
    /\ ~CanOpen
    /\ ctor' = "failed"
    /\ UNCHANGED <<fileVars, handleVars, db, wstate, chanVars, done, wpc,
                   reloadVars, closeVars, q>>
    /\ NoLookupReturns
    /\ NoCloseReturns
    /\ UNCHANGED handlerVars

\* geoip2.Open(path) succeeds: the struct is built and r.db.Store(db) runs.
NewMmdbReaderOpens ==
    /\ ctor = "idle"
    /\ CanOpen
    /\ nOpened' = nOpened + 1
    /\ content' = [content EXCEPT ![nOpened + 1] = file]
    /\ db' = nOpened + 1
    /\ ctor' = "opened"
    /\ UNCHANGED <<fileVars, rel, wstate, chanVars, done, wpc,
                   reloadVars, closeVars, q>>
    /\ NoLookupReturns
    /\ NoCloseReturns
    /\ UNCHANGED handlerVars

\* Variant: a watcher whose Add failed is not closed.
startWatcherFails_LeaksWatcher ==
    /\ ctor = "opened"
    /\ \E created \in BOOLEAN :
          wstate' = IF created THEN "watching" ELSE "none"
    /\ ctor' = "ready"
    /\ UNCHANGED <<fileVars, handleVars, db, chanVars, done, wpc,
                   reloadVars, closeVars, q>>
    /\ NoLookupReturns
    /\ NoCloseReturns
    /\ UNCHANGED handlerVars

\* startWatcher: fsnotify.NewWatcher() or watcher.Add(dir) fails; a watcher
\* that was created is closed again; NewMmdbReader logs and returns (r, nil).
startWatcherFails ==
    /\ ctor = "opened"
    /\ \E created \in BOOLEAN :
          wstate' = IF created THEN "closed" ELSE "none"
    /\ ctor' = "ready"
    /\ UNCHANGED <<fileVars, handleVars, db, chanVars, done, wpc,
                   reloadVars, closeVars, q>>
    /\ NoLookupReturns
    /\ NoCloseReturns
    /\ UNCHANGED handlerVars

\* startWatcher: the directory watch is established and the goroutine is
\* spawned; NewMmdbReader returns (r, nil).
startWatcher ==
    /\ ctor = "opened"
    /\ wstate' = "watching"
    /\ chOpen' = TRUE
    /\ wpc' = "select"
    /\ ctor' = "ready"
    /\ UNCHANGED <<fileVars, handleVars, db, events, errs,
                   done, reloadVars, closeVars, q>>
    /\ NoLookupReturns
    /\ NoCloseReturns
    /\ UNCHANGED handlerVars

\* ------------------------------------------------- the file and fsnotify
Delivering == wstate = "watching" /\ chOpen

\* Event.Has
Has(e, o) == o \in e.op

\* The database file is replaced (rename-into-place shows as a create of the
\* base name, an in-place write as a write); a truncated or corrupt file is
\* the "invalid" state. An established watch delivers the event.
ReplaceFile(c) ==
    /\ nReplace < MaxReplace
    /\ Delivering => Len(events) < MaxPending
    /\ file' = c
    /\ nReplace' = nReplace + 1
    /\ replWatched' = Delivering
    /\ events' = IF Delivering THEN Append(events, "replaced") ELSE events
    /\ UNCHANGED <<handleVars, db, ctor, wstate, chOpen, errs,
                   done, wpc, reloadVars, closeVars, q>>
    /\ NoLookupReturns
    /\ NoCloseReturns
    /\ UNCHANGED handlerVars

\* The database file is replaced on a host whose file changes raise no
\* inotify event (a bind mount proxied through gRPC-FUSE or VirtioFS): the
\* established watch delivers nothing.
ReplaceFileUnseen(c) ==
    /\ nReplace < MaxReplace
    /\ Delivering
    /\ file' = c
    /\ nReplace' = nReplace + 1
    /\ replWatched' = FALSE
    /\ UNCHANGED <<handleVars, db, ctor, wstate, chanVars,
                   done, wpc, reloadVars, closeVars, q>>
    /\ NoLookupReturns
    /\ NoCloseReturns
    /\ UNCHANGED handlerVars

\* Any other event in the watched directory: a rename, remove or chmod of the
\* database file, or any event on a sibling file.
OtherEvent ==
    /\ Delivering
    /\ Len(events) < MaxPending
    /\ events' = Append(events, "other")
    /\ UNCHANGED <<fileVars, handleVars, db, ctor, wstate, chOpen, errs,
                   done, wpc, reloadVars, closeVars, q>>
    /\ NoLookupReturns
    /\ NoCloseReturns
    /\ UNCHANGED handlerVars

\* fsnotify reports an error on watcher.Errors.
WatcherErrorArrives ==
    /\ Delivering
    /\ ~errs
    /\ errs' = TRUE
    /\ UNCHANGED <<fileVars, handleVars, db, ctor, wstate, events, chOpen,
                   done, wpc, reloadVars, closeVars, q>>
    /\ NoLookupReturns
    /\ NoCloseReturns
    /\ UNCHANGED handlerVars

\* fsnotify's reader stops on its own and closes both channels.
WatcherChannelsClose ==
    /\ Delivering
    /\ chOpen' = FALSE
    /\ UNCHANGED <<fileVars, handleVars, db, ctor, wstate, events, errs, done, wpc, reloadVars, closeVars, q>>
    /\ NoLookupReturns
    /\ NoCloseReturns
    /\ UNCHANGED handlerVars

\* ------------------------------------------------------ the watcher goroutine
\* Variant: the goroutine returns without the deferred watcher.Close().
WatcherExit_KeepsWatch ==
    /\ wpc' = "exited"
    /\ UNCHANGED <<wstate, chanVars>>

\* defer watcher.Close()
WatcherExit ==
    /\ wpc' = "exited"
    /\ wstate' = "closed"
    /\ chOpen' = FALSE
    /\ events' = <<>>
    /\ errs' = FALSE

\* case <-r.done: return
WatchLoopDone ==
    /\ wpc = "select"
    /\ done
    /\ WatcherExit
    /\ UNCHANGED <<fileVars, handleVars, db, ctor, done,
                   reloadVars, closeVars, q>>
    /\ NoLookupReturns
    /\ NoCloseReturns
    /\ UNCHANGED handlerVars

\* Variant: only a write of the base name counts, a create is ignored.
Matches_WriteOnly(e) == e.name = BaseName /\ Has(e, "write")

\* Variant: the file name of the event is not compared.
Matches_AnyName(e) == Has(e, "write") \/ Has(e, "create")

\* The decision the event case takes for a received event.
Matches(e) == e.name = BaseName /\ (Has(e, "write") \/ Has(e, "create"))

\* case event, ok := <-watcher.Events with ok: filter, and call reload on a
\* create or write of the base name.
WatchLoopEvent ==
    /\ wpc = "select"
    /\ events # <<>>
    /\ events' = Tail(events)
    /\ \E e \in EventsOf(Head(events)) :
          /\ wpc' = IF Matches(e) THEN "reload" ELSE "select"
          /\ owed' = IF Matches(e) THEN owed + 1 ELSE owed
    /\ UNCHANGED <<fileVars, handleVars, db, ctor, wstate, chOpen, errs,
                   done, wNew, wOld, closeVars, q>>
    /\ NoLookupReturns
    /\ NoCloseReturns
    /\ UNCHANGED handlerVars

\* case event, ok := <-watcher.Events with !ok, or
\* case err, ok := <-watcher.Errors with !ok: return
WatchLoopChannelClosed ==
    /\ wpc = "select"
    /\ ~chOpen
    /\ events = <<>> \/ ~errs
    /\ WatcherExit
    /\ UNCHANGED <<fileVars, handleVars, db, ctor, done,
                   reloadVars, closeVars, q>>
    /\ NoLookupReturns
    /\ NoCloseReturns
    /\ UNCHANGED handlerVars

\* Variant: the goroutine returns on a watcher error.
WatchLoopError_Returns ==
    /\ wpc = "select"
    /\ errs
    /\ WatcherExit
    /\ UNCHANGED <<fileVars, handleVars, db, ctor, done,
                   reloadVars, closeVars, q>>
    /\ NoLookupReturns
    /\ NoCloseReturns
    /\ UNCHANGED handlerVars

\* case err, ok := <-watcher.Errors with ok: log and keep watching.
WatchLoopError ==
    /\ wpc = "select"
    /\ errs
    /\ errs' = FALSE
    /\ UNCHANGED <<fileVars, handleVars, db, ctor, wstate, events, chOpen, done, wpc, reloadVars, closeVars, q>>
    /\ NoLookupReturns
    /\ NoCloseReturns
    /\ UNCHANGED handlerVars

\* ------------------------------------------------------------------- reload
\* Variant: the active handle is closed before the new file is opened, so a
\* failed open has already released it.
reloadOpenFails_ClosesActive ==
    /\ wpc = "reload"
    /\ ~CanOpen
    /\ CloseHandle(db)
    /\ wpc' = "select"
    /\ UNCHANGED <<fileVars, content, nOpened, db, ctor, wstate, chanVars, done,
                   wNew, wOld, closeVars, q>>
    /\ owed' = owed - 1
    /\ NoLookupReturns
    /\ NoCloseReturns
    /\ UNCHANGED handlerVars

\* Variant: a failed open is tried again at once, without a new event.
reloadOpenFails_Retries ==
    /\ wpc = "reload"
    /\ ~CanOpen
    /\ owed > -1
    /\ wpc' = "reload"
    /\ UNCHANGED <<fileVars, handleVars, db, ctor, wstate, chanVars, done,
                   wNew, wOld, closeVars, q>>
    /\ owed' = owed - 1
    /\ NoLookupReturns
    /\ NoCloseReturns
    /\ UNCHANGED handlerVars

\* geoip2.Open(r.path) fails: reload returns the error, the loop logs it.
reloadOpenFails ==
    /\ wpc = "reload"
    /\ ~CanOpen
    /\ wpc' = "select"
    /\ UNCHANGED <<fileVars, handleVars, db, ctor, wstate, chanVars, done,
                   wNew, wOld, closeVars, q>>
    /\ owed' = owed - 1
    /\ NoLookupReturns
    /\ NoCloseReturns
    /\ UNCHANGED handlerVars

\* Variant: the active handle is released as soon as the new file is open,
\* before the swap.
reloadOpens_ReleasesActive ==
    /\ wpc = "reload"
    /\ CanOpen
    /\ nOpened' = nOpened + 1
    /\ content' = [content EXCEPT ![nOpened + 1] = file]
    /\ rel' = [rel EXCEPT ![db] = IF @ < 2 THEN @ + 1 ELSE 2]
    /\ wNew' = nOpened + 1
    /\ wpc' = "swap"
    /\ UNCHANGED <<fileVars, db, ctor, wstate, chanVars, done,
                   wOld, closeVars, q>>
    /\ owed' = owed - 1
    /\ NoLookupReturns
    /\ NoCloseReturns
    /\ UNCHANGED handlerVars

\* newDB, err := geoip2.Open(r.path) succeeds.
reloadOpens ==
    /\ wpc = "reload"
    /\ CanOpen
    /\ nOpened' = nOpened + 1
    /\ content' = [content EXCEPT ![nOpened + 1] = file]
    /\ wNew' = nOpened + 1
    /\ wpc' = "swap"
    /\ UNCHANGED <<fileVars, rel, db, ctor, wstate, chanVars, done,
                   wOld, closeVars, q>>
    /\ owed' = owed - 1
    /\ NoLookupReturns
    /\ NoCloseReturns
    /\ UNCHANGED handlerVars

\* Variant: the slot is left alone and the new handle takes the place of the
\* old one in what follows.
reloadSwap_DropsNew ==
    /\ wpc = "swap"
    /\ wOld' = wNew
    /\ db' = db
    /\ wpc' = "release"
    /\ UNCHANGED <<fileVars, handleVars, ctor, wstate, chanVars, done,
                   wNew, owed, closeVars, q>>
    /\ NoLookupReturns
    /\ NoCloseReturns
    /\ UNCHANGED handlerVars

\* oldDB := r.db.Swap(newDB)
reloadSwap ==
    /\ wpc = "swap"
    /\ wOld' = db
    /\ db' = wNew
    /\ wpc' = "release"
    /\ UNCHANGED <<fileVars, handleVars, ctor, wstate, chanVars, done,
                   wNew, owed, closeVars, q>>
    /\ NoLookupReturns
    /\ NoCloseReturns
    /\ UNCHANGED handlerVars

\* Variant: reload closes the handle it has just stored instead of oldDB.
reloadRelease_ClosesNew ==
    /\ wpc = "release"
    /\ CloseHandle(wNew)
    /\ wpc' = "select"
    /\ wNew' = NoHandle
    /\ wOld' = NoHandle
    /\ UNCHANGED <<owed, fileVars, content, nOpened, db, ctor, wstate, chanVars, done,
                   closeVars, q>>
    /\ NoLookupReturns
    /\ NoCloseReturns
    /\ UNCHANGED handlerVars

\* oldDB.Close(); reload returns nil.
reloadRelease ==
    /\ wpc = "release"
    /\ CloseHandle(wOld)
    /\ wpc' = "select"
    /\ wNew' = NoHandle
    /\ wOld' = NoHandle
    /\ UNCHANGED <<owed, fileVars, content, nOpened, db, ctor, wstate, chanVars, done, closeVars, q>>
    /\ NoLookupReturns
    /\ NoCloseReturns
    /\ UNCHANGED handlerVars


\* -------------------------------------------------------------------- Close
\* close(r.done)
CloseSignal ==
    /\ ctor = "ready"
    /\ cpc = "idle"
    /\ done' = TRUE
    /\ cpc' = "signalled"
    /\ UNCHANGED <<fileVars, handleVars, db, ctor, wstate, chanVars, wpc,
                   reloadVars, cH, q>>
    /\ NoLookupReturns
    /\ NoCloseReturns
    /\ UNCHANGED handlerVars

\* Variant: Close waits for the watcher goroutine to have returned before it
\* goes on to the handle.
CloseLoad_WaitsForWatcher ==
    /\ cpc = "signalled"
    /\ wpc \in {"none", "exited"}
    /\ cH' = db
    /\ cpc' = "loaded"
    /\ UNCHANGED <<fileVars, handleVars, db, ctor, wstate, chanVars, done, wpc,
                   reloadVars, q>>
    /\ NoLookupReturns
    /\ NoCloseReturns
    /\ UNCHANGED handlerVars

\* r.db.Load()
CloseLoad ==
    /\ cpc = "signalled"
    /\ cH' = db
    /\ cpc' = "loaded"
    /\ UNCHANGED <<fileVars, handleVars, db, ctor, wstate, chanVars, done, wpc,
                   reloadVars, q>>
    /\ NoLookupReturns
    /\ NoCloseReturns
    /\ UNCHANGED handlerVars

\* Variant: the error of the release is dropped and Close returns nil.
CloseRelease_SwallowsError ==
    /\ cpc = "loaded"
    /\ CloseHandle(cH)
    /\ cpc' = "returned"
    /\ cH' = NoHandle
    /\ \E failed \in BOOLEAN :
          cret' = [kind |-> "returned", h |-> cH, failed |-> failed, err |-> FALSE]
    /\ UNCHANGED <<fileVars, content, nOpened, db, ctor, wstate, chanVars, done,
                   wpc, reloadVars, q>>
    /\ NoLookupReturns
    /\ UNCHANGED handlerVars

\* Variant: Close takes the handle out of the slot and leaves it empty.
CloseRelease_ClearsSlot ==
    /\ cpc = "loaded"
    /\ CloseHandle(cH)
    /\ cpc' = "returned"
    /\ cH' = NoHandle
    /\ db' = NoHandle
    /\ \E failed \in BOOLEAN :
          cret' = [kind |-> "returned", h |-> cH, failed |-> failed, err |-> failed]
    /\ UNCHANGED <<fileVars, content, nOpened, ctor, wstate, chanVars, done,
                   wpc, reloadVars, q>>
    /\ NoLookupReturns
    /\ UNCHANGED handlerVars

\* return <loaded handle>.Close(): the handle is released, which may fail,
\* and Close returns the error of that release.
CloseRelease ==
    /\ cpc = "loaded"
    /\ CloseHandle(cH)
    /\ cpc' = "returned"
    /\ cH' = NoHandle
    /\ \E failed \in BOOLEAN :
          cret' = [kind |-> "returned", h |-> cH, failed |-> failed, err |-> failed]
    /\ UNCHANGED <<fileVars, content, nOpened, db, ctor, wstate, chanVars, done,
                   wpc, reloadVars, q>>
    /\ NoLookupReturns
    /\ UNCHANGED handlerVars

\* A second Close: close(r.done) on the already closed channel panics. The
\* panic is not recovered, the process dies with its goroutines, and the
\* operating system takes the watch away.
CloseAgain ==
    /\ cpc = "returned"
    /\ cpc' = "panicked"
    /\ ctor' = "crashed"
    /\ wpc' = IF wpc \in {"none", "exited"} THEN wpc ELSE "killed"
    /\ wstate' = IF wstate = "watching" THEN "closed" ELSE wstate
    /\ chOpen' = FALSE
    /\ events' = <<>>
    /\ errs' = FALSE
    /\ wNew' = NoHandle
    /\ wOld' = NoHandle
    /\ q' = [i \in Callers |-> IdleCall]
    /\ UNCHANGED <<fileVars, handleVars, db, done, cH, owed>>
    /\ NoLookupReturns
    /\ NoCloseReturns
    /\ UNCHANGED handlerVars

\* ------------------------------------------------------------ LookupCountry
\* What LookupCountry returns from record, err := <handle>.Country(ip):
\* ("", err) on an error, otherwise (record.Country.IsoCode, nil).
LookupResult(rec) ==
    IF rec.kind # "ok"
    THEN [kind |-> rec.kind, country |-> ""]
    ELSE [kind |-> "ok", country |-> rec.iso]

\* Variant: a read of the slot that is not atomic with the swap and still
\* yields the superseded handle until reload has finished.
LookupLoad_Stale(i) ==
    /\ ctor = "ready"
    /\ q[i].pc = "idle"
    /\ q' = [q EXCEPT ![i].pc = "loaded",
                      ![i].h = IF wOld # NoHandle THEN wOld ELSE db,
                      ![i].loads = @ + 1]
    /\ UNCHANGED <<fileVars, handleVars, db, ctor, wstate, chanVars, done, wpc,
                   reloadVars, closeVars>>
    /\ NoLookupReturns
    /\ NoCloseReturns
    /\ UNCHANGED handlerVars

\* Variant: the slot is guarded by a lock that reload holds from the swap to
\* the release of the old handle.
LookupLoad_Locked(i) ==
    /\ ctor = "ready"
    /\ q[i].pc = "idle"
    /\ wpc \notin {"swap", "release"}
    /\ q' = [q EXCEPT ![i].pc = "loaded", ![i].h = db, ![i].loads = @ + 1]
    /\ UNCHANGED <<fileVars, handleVars, db, ctor, wstate, chanVars, done, wpc,
                   reloadVars, closeVars>>
    /\ NoLookupReturns
    /\ NoCloseReturns
    /\ UNCHANGED handlerVars

\* A caller enters LookupCountry on the engine NewMmdbReader returned; its
\* first step is r.db.Load().
LookupLoad(i) ==
    /\ ctor = "ready"
    /\ q[i].pc = "idle"
    /\ q' = [q EXCEPT ![i].pc = "loaded", ![i].h = db, ![i].loads = @ + 1]
    /\ UNCHANGED <<fileVars, handleVars, db, ctor, wstate, chanVars, done, wpc,
                   reloadVars, closeVars>>
    /\ NoLookupReturns
    /\ NoCloseReturns
    /\ UNCHANGED handlerVars

\* Variant: the query reads the slot a second time instead of using the
\* handle the call has loaded.
LookupQuery_ReadsSlotAgain(i, ip) ==
    /\ q[i].pc = "loaded"
    /\ \E out \in ReleasedOutcomes :
          LET rec == IF IsOpen(db) THEN Country(content[db], ip)
                                   ELSE [kind |-> out, iso |-> ""]
              res == LookupResult(rec)
          IN ret' = [ip |-> ip, h |-> q[i].h, loads |-> q[i].loads,
                     active |-> (q[i].h = db /\ cpc = "idle"),
                     kind |-> res.kind, country |-> res.country]
    /\ q' = [q EXCEPT ![i] = IdleCall]
    /\ UNCHANGED <<fileVars, handleVars, db, ctor, wstate, chanVars, done, wpc,
                   reloadVars, closeVars>>
    /\ NoCloseReturns
    /\ UNCHANGED handlerVars

\* <loaded handle>.Country(ip) for the call's argument ip, and the return.
LookupQuery(i, ip) ==
    /\ q[i].pc = "loaded"
    /\ \E out \in ReleasedOutcomes :
          LET h   == q[i].h
              rec == IF IsOpen(h) THEN Country(content[h], ip)
                                  ELSE [kind |-> out, iso |-> ""]
              res == LookupResult(rec)
          IN ret' = [ip |-> ip, h |-> h, loads |-> q[i].loads,
                     active |-> (h = db /\ cpc = "idle"),
                     kind |-> res.kind, country |-> res.country]
    /\ q' = [q EXCEPT ![i] = IdleCall]
    /\ UNCHANGED <<fileVars, handleVars, db, ctor, wstate, chanVars, done, wpc,
                   reloadVars, closeVars>>
    /\ NoCloseReturns
    /\ UNCHANGED handlerVars

\* ------------------------------------------------- the REST Check handler
\* The ip strings and allowed_countries lists of the requests served, and
\* the country codes the CountryLookup behind the handler answers.
IPStrings == {"", "not-an-ip", "1.2.3.4", "2001:db8::1"}
AllowedLists == {<<>>, <<"US">>, <<"US", "CA">>, <<"us">>}
LookupCountries == {"US", "CA", ""}

RequestBodies ==
    [json : BOOLEAN, hasIP : BOOLEAN, ip : IPStrings,
     hasAllowed : BOOLEAN, allowed : AllowedLists]
LookupOutcomes == [country : LookupCountries, err : BOOLEAN]

\* c.ShouldBindJSON(&req): the body decodes, ip is non-empty ("required")
\* and allowed_countries is present with at least one element
\* ("required,min=1"). A key the body lacks leaves the field at its zero value.
ShouldBindJSON(b) ==
    /\ b.json
    /\ (IF b.hasIP THEN b.ip ELSE "") # ""
    /\ b.hasAllowed
    /\ Len(b.allowed) >= 1

NilIP == [family |-> 0, text |-> ""]

\* Variant: every non-empty string is taken for an address.
ParseIP_AcceptsAll(str) ==
    IF str = "" THEN NilIP ELSE [family |-> 4, text |-> str]

\* net.ParseIP: the address a textual IPv4 or IPv6 address denotes, nil for
\* any other string.
ParseIP(str) ==
    CASE str = "1.2.3.4"     -> [family |-> 4, text |-> str]
      [] str = "2001:db8::1" -> [family |-> 6, text |-> str]
      [] OTHER               -> NilIP

\* Variant: the lookup counts as failed when it gave no country.
LookupFailed_ByCountry(lk) == lk.country = ""

\* if err != nil after h.lookup.LookupCountry(ip)
LookupFailed(lk) == lk.err

\* Variant: the comparison ignores the case of the letters.
IsAllowed_FoldsCase(list, country) ==
    LET upper(str) == CASE str = "us" -> "US" [] OTHER -> str
    IN  \E k \in 1 .. Len(list) : upper(list[k]) = upper(country)

\* Variant: only the first element of the list is compared.
IsAllowed_FirstOnly(list, country) == list[1] = country

\* The loop over req.AllowedCountries comparing each element with ==.
IsAllowed(list, country) == \E k \in 1 .. Len(list) : list[k] = country

\* Variant: the address is looked up before the request is validated.
Check_LooksUpFirst(b, lk) ==
    IF ~ShouldBindJSON(b) THEN
        [status |-> 400, allowed |-> FALSE, country |-> "",
         error |-> "invalid request: binding", calls |-> 1]
    ELSE IF ParseIP(b.ip) = NilIP THEN
        [status |-> 400, allowed |-> FALSE, country |-> "",
         error |-> "invalid IP address", calls |-> 1]
    ELSE IF LookupFailed(lk) THEN
        [status |-> 500, allowed |-> FALSE, country |-> "",
         error |-> "lookup failed", calls |-> 1]
    ELSE
        [status |-> 200, allowed |-> IsAllowed(b.allowed, lk.country),
         country |-> lk.country, error |-> "", calls |-> 1]

\* Handler.Check: the response written for body b when the CountryLookup
\* answers lk; calls counts the LookupCountry calls made. The text that
\* follows "invalid request: " is the binding error.
Check(b, lk) ==
    IF ~ShouldBindJSON(b) THEN
        [status |-> 400, allowed |-> FALSE, country |-> "",
         error |-> "invalid request: binding", calls |-> 0]
    ELSE IF ParseIP(b.ip) = NilIP THEN
        [status |-> 400, allowed |-> FALSE, country |-> "",
         error |-> "invalid IP address", calls |-> 0]
    ELSE IF LookupFailed(lk) THEN
        [status |-> 500, allowed |-> FALSE, country |-> "",
         error |-> "lookup failed", calls |-> 1]
    ELSE
        [status |-> 200, allowed |-> IsAllowed(b.allowed, lk.country),
         country |-> lk.country, error |-> "", calls |-> 1]

\* POST /api/v1/check is served.
RestCheck ==
    /\ hresp = NoResponse
    /\ hresp' = Check(hreq, hlk)
    /\ UNCHANGED <<hreq, hlk, gresp, readyFn, hready, hhealth, engineVars, svc>>

\* ------------------------------------------------- the gRPC Check handler
\* The *CheckRequest a client sends for the same ip and allowed_countries: a
\* field that is not set has its zero value; where there is no decodable
\* request at all the handler is handed nil.
GrpcRequest(b) ==
    IF ~b.json THEN [nil |-> TRUE, Ip |-> "", AllowedCountries |-> <<>>]
    ELSE [nil |-> FALSE,
          Ip |-> IF b.hasIP THEN b.ip ELSE "",
          AllowedCountries |-> IF b.hasAllowed THEN b.allowed ELSE <<>>]

GrpcError(code, message, calls) ==
    [code |-> code, message |-> message, hasResp |-> FALSE,
     allowed |-> FALSE, country |-> "", error |-> "", calls |-> calls]

\* Variant: only the error of the lookup is looked at.
GrpcLookupFailed_ErrOnly(lk) == lk.err

\* if err != nil ... if country == "" after h.lookup.LookupCountry(ip)
GrpcLookupFailed(lk) == lk.err \/ lk.country = ""

\* Handler.Check of package grpc: what it returns for req when the
\* CountryLookup answers lk; calls counts the LookupCountry calls made.
GrpcHandlerCheck(req, lk) ==
    IF req.nil THEN GrpcError("InvalidArgument", "request is required", 0)
    ELSE IF req.Ip = "" THEN GrpcError("InvalidArgument", "ip is required", 0)
    ELSE IF Len(req.AllowedCountries) = 0 THEN
        GrpcError("InvalidArgument", "allowed_countries is required", 0)
    ELSE IF ParseIP(req.Ip) = NilIP THEN
        GrpcError("InvalidArgument", "invalid IP address", 0)
    ELSE IF GrpcLookupFailed(lk) THEN
        GrpcError("Internal",
                  IF lk.err THEN "lookup failed"
                  ELSE "lookup returned empty country", 1)
    ELSE
        [code |-> "OK", message |-> "", hasResp |-> TRUE,
         allowed |-> IsAllowed(req.AllowedCountries, lk.country),
         country |-> lk.country, error |-> "", calls |-> 1]

\* GeofenceService.Check is served.
GrpcCheck ==
    /\ gresp = NoGrpcReturn
    /\ gresp' = GrpcHandlerCheck(GrpcRequest(hreq), hlk)
    /\ UNCHANGED <<hreq, hlk, hresp, readyFn, hready, hhealth, engineVars, svc>>

\* ------------------------------------------------------ the health handler
\* The readiness functions a handler is built with: none (nil), one that
\* returns nil, one that returns an error, and the one main wires, which
\* looks the sentinel address up on the CountryLookup.
ReadyFns == {"nil", "ok", "err", "wired"}

\* Whether a call of the readiness function returns an error.
ReadyFnFails(fn, lk) ==
    CASE fn = "ok"    -> FALSE
      [] fn = "err"   -> TRUE
      [] fn = "wired" -> lk.err
      [] OTHER        -> FALSE

\* Variant: the probe answers ready without asking the readiness function.
Ready_Placeholder(fn, lk) == [status |-> 200, body |-> "ready"]

\* Handler.Ready
Ready(fn, lk) ==
    IF fn # "nil" /\ ReadyFnFails(fn, lk)
    THEN [status |-> 503, body |-> "not ready"]
    ELSE [status |-> 200, body |-> "ready"]

\* Variant: liveness is made to depend on readiness.
Health_AsksReadiness ==
    IF Ready(readyFn, hlk).status = 200
    THEN [status |-> 200, body |-> "ok"]
    ELSE [status |-> 503, body |-> "not ready"]

\* Handler.Health
Health == [status |-> 200, body |-> "ok"]

\* GET /ready is served.
ReadyProbe ==
    /\ hready = NoProbe
    /\ hready' = Ready(readyFn, hlk)
    /\ UNCHANGED <<hreq, hlk, hresp, gresp, readyFn, hhealth, engineVars, svc>>

\* GET /health is served.
HealthProbe ==
    /\ hhealth = NoProbe
    /\ hhealth' = Health
    /\ UNCHANGED <<hreq, hlk, hresp, gresp, readyFn, hready, engineVars, svc>>

\* ------------------------------------------------------------ specification
Environment ==
    \/ \E c \in FileStates \ {"missing"} : ReplaceFile(c)
    \/ \E c \in FileStates \ {"missing"} : ReplaceFileUnseen(c)
    \/ OtherEvent
    \/ WatcherErrorArrives
    \/ WatcherChannelsClose

Constructor ==
    \/ NewMmdbReaderOpenFails
    \/ NewMmdbReaderOpens
    \/ startWatcherFails
    \/ startWatcher

WatchLoop ==
    \/ WatchLoopDone
    \/ WatchLoopEvent
    \/ WatchLoopChannelClosed
    \/ WatchLoopError
    \/ reloadOpenFails
    \/ reloadOpens
    \/ reloadSwap
    \/ reloadRelease

Closing ==
    \/ CloseSignal
    \/ CloseLoad
    \/ CloseRelease
    \/ CloseAgain

Lookups ==
    \E i \in Callers :
        \/ LookupLoad(i)
        \/ \E ip \in Addrs : LookupQuery(i, ip)

Next == Environment \/ Constructor \/ WatchLoop \/ Closing \/ Lookups

Spec == Init /\ [][Next]_vars

\* The watcher goroutine is scheduled, and select chooses fairly among its
\* ready cases: a step of the loop that stays possible is eventually taken.
FairSpec ==
    /\ Spec
    /\ WF_vars(WatchLoopDone) /\ WF_vars(WatchLoopEvent)
    /\ WF_vars(WatchLoopChannelClosed) /\ WF_vars(WatchLoopError)
    /\ WF_vars(reloadOpenFails) /\ WF_vars(reloadOpens)
    /\ WF_vars(reloadSwap) /\ WF_vars(reloadRelease)

\* The engine without its LookupCountry callers. A lookup step changes only q
\* and ret, which no step of the watcher, of Close or of the file system
\* reads, so what the watcher does is the same with and without callers.
WatcherNext == Environment \/ Constructor \/ WatchLoop \/ Closing

WatcherFairSpec ==
    /\ Init /\ [][WatcherNext]_vars
    /\ WF_vars(WatchLoopDone) /\ WF_vars(WatchLoopEvent)
    /\ WF_vars(WatchLoopChannelClosed) /\ WF_vars(WatchLoopError)
    /\ WF_vars(reloadOpenFails) /\ WF_vars(reloadOpens)
    /\ WF_vars(reloadSwap) /\ WF_vars(reloadRelease)

\* A handler serving one request over a CountryLookup with a given answer.
HandlerInit ==
    /\ EngineInit
    /\ svc = ServiceStart("set")
    /\ hreq \in RequestBodies
    /\ hlk \in LookupOutcomes
    /\ hresp = NoResponse
    /\ gresp = NoGrpcReturn
    /\ readyFn \in ReadyFns
    /\ hready = NoProbe
    /\ hhealth = NoProbe

HandlerNext == RestCheck \/ GrpcCheck \/ ReadyProbe \/ HealthProbe

HandlerSpec == HandlerInit /\ [][HandlerNext]_vars

\* --------------------------------------------------------------------- main
\* The process of cmd/geofence: main, the two server goroutines it starts and
\* the requests the servers have in flight. The engine is seen from outside:
\* not constructed, open, or closed by the deferred lookup.Close().
serviceFrame ==
    UNCHANGED <<engineVars, hreq, hlk, hresp, gresp, readyFn, hready, hhealth>>

Running == svc.pc # "exited"

\* os.Exit(1): the process ends at once, deferred calls do not run.
Exit1 == [svc EXCEPT !.pc = "exited", !.exit = "1"]

\* mmdbPath := os.Getenv("MMDB_PATH"); empty: log and os.Exit(1).
MainGetenv ==
    /\ svc.pc = "getenv"
    /\ svc' = IF svc.path = "unset"
              THEN [Exit1 EXCEPT !.load = "unset"]
              ELSE [svc EXCEPT !.pc = "open"]
    /\ serviceFrame

\* Variant: a failed NewMmdbReader is logged and main carries on.
MainNewMmdbReader_IgnoresError ==
    /\ svc.pc = "open"
    /\ \E watching \in BOOLEAN :
          svc' = IF CanOpen /\ watching
                 THEN [svc EXCEPT !.pc = "listen", !.load = "ok", !.engine = "open"]
                 ELSE [svc EXCEPT !.pc = "listen", !.load = "failed"]
    /\ serviceFrame

\* lookup, err := data.NewMmdbReader(mmdbPath); err: log and os.Exit(1);
\* defer lookup.Close(). The constructor fails when the file cannot be opened
\* or the watcher cannot be started.
MainNewMmdbReader ==
    /\ svc.pc = "open"
    /\ \E watching \in BOOLEAN :
          svc' = IF CanOpen /\ watching
                 THEN [svc EXCEPT !.pc = "listen", !.load = "ok", !.engine = "open"]
                 ELSE [Exit1 EXCEPT !.load = "failed"]
    /\ serviceFrame

\* Handlers registered, servers created; net.Listen for gRPC (failure:
\* os.Exit(1)); then the two go statements.
MainListen ==
    /\ svc.pc = "listen"
    /\ \E bound \in BOOLEAN :
          svc' = IF bound
                 THEN [svc EXCEPT !.pc = "notify", !.http = "spawned",
                                  !.grpc = "spawned"]
                 ELSE Exit1
    /\ serviceFrame

\* go func: srv.ListenAndServe(); an error other than ErrServerClosed:
\* os.Exit(1).
HttpListenAndServe ==
    /\ Running
    /\ svc.http = "spawned"
    /\ \E bound \in BOOLEAN :
          svc' = IF bound THEN [svc EXCEPT !.http = "serving"] ELSE Exit1
    /\ serviceFrame

\* go func: grpcServer.Serve(grpcListener) starts accepting.
GrpcServe ==
    /\ Running
    /\ svc.grpc = "spawned"
    /\ svc' = [svc EXCEPT !.grpc = "serving"]
    /\ serviceFrame

\* Serve returns an error: Accept failed, or Serve was first called after
\* GracefulStop (ErrServerStopped); os.Exit(1).
GrpcServeFails ==
    /\ Running
    /\ svc.grpc \in {"serving", "unserved"}
    /\ svc' = Exit1
    /\ serviceFrame

\* signal.Notify(quit, syscall.SIGINT, syscall.SIGTERM)
MainNotify ==
    /\ svc.pc = "notify"
    /\ svc' = [svc EXCEPT !.pc = "wait"]
    /\ serviceFrame

\* SIGINT or SIGTERM is sent to the process: queued on quit once Notify has
\* run, the default disposition (the process is terminated) before.
SignalArrives ==
    /\ Running
    /\ svc.sig = "none"
    /\ svc' = IF svc.pc \in {"getenv", "open", "listen", "notify"}
              THEN [svc EXCEPT !.pc = "exited", !.exit = "signal",
                               !.sig = "killed"]
              ELSE [svc EXCEPT !.sig = "pending"]
    /\ serviceFrame

\* <-quit
MainQuit ==
    /\ svc.pc = "wait"
    /\ svc.sig = "pending"
    /\ svc' = [svc EXCEPT !.pc = "gracefulStop", !.sig = "taken"]
    /\ serviceFrame

\* grpcServer.GracefulStop(), entry: the listener is closed and no new RPC is
\* accepted.
MainGracefulStopBegin ==
    /\ svc.pc = "gracefulStop"
    /\ svc' = [svc EXCEPT !.pc = "gracefulWait",
                          !.grpc = IF svc.grpc = "serving" THEN "draining"
                                   ELSE IF svc.grpc = "spawned" THEN "unserved"
                                   ELSE @]
    /\ serviceFrame

\* grpcServer.GracefulStop() returns when no RPC is pending.
MainGracefulStopReturn ==
    /\ svc.pc = "gracefulWait"
    /\ svc.gIn = 0
    /\ svc' = [svc EXCEPT !.pc = "shutdown",
                          !.grpc = IF svc.grpc = "draining" THEN "stopped" ELSE @]
    /\ serviceFrame

\* srv.Shutdown(ctx), entry: listeners are closed; a ListenAndServe not yet
\* or already running returns ErrServerClosed.
MainShutdownBegin ==
    /\ svc.pc = "shutdown"
    /\ svc' = [svc EXCEPT !.pc = "shutdownWait",
                          !.http = IF svc.http = "serving" THEN "draining"
                                   ELSE "stopped"]
    /\ serviceFrame

\* Variant: Shutdown returns without waiting for the requests in flight.
MainShutdownReturn_NoWait ==
    /\ svc.pc = "shutdownWait"
    /\ svc' = [svc EXCEPT !.pc = "deferred", !.http = "stopped"]
    /\ serviceFrame

\* srv.Shutdown(ctx) returns nil once every connection is idle.
MainShutdownReturn ==
    /\ svc.pc = "shutdownWait"
    /\ svc.hIn = 0
    /\ svc' = [svc EXCEPT !.pc = "deferred", !.http = "stopped"]
    /\ serviceFrame

\* The 30 s of ctx pass with a request still in flight: Shutdown returns the
\* context's error; log and os.Exit(1).
MainShutdownTimeout ==
    /\ svc.pc = "shutdownWait"
    /\ svc.hIn > 0
    /\ svc' = Exit1
    /\ serviceFrame

\* main returns: the deferred cancel() and lookup.Close() run.
MainDeferredClose ==
    /\ svc.pc = "deferred"
    /\ svc' = [svc EXCEPT !.pc = "closed", !.engine = "closed"]
    /\ serviceFrame

\* The process ends with status 0.
MainExit ==
    /\ svc.pc = "closed"
    /\ svc' = [svc EXCEPT !.pc = "exited", !.exit = "0"]
    /\ serviceFrame

\* A request reaches a handler of the HTTP server (/api/v1/check, /ready).
HttpRequestArrives ==
    /\ Running
    /\ svc.http = "serving"
    /\ svc.hIn < MaxInFlight
    /\ svc' = [svc EXCEPT !.hIn = @ + 1]
    /\ serviceFrame

\* The handler calls lookup.LookupCountry and answers.
HttpRequestCompletes ==
    /\ Running
    /\ svc.hIn > 0
    /\ svc' = [svc EXCEPT !.hIn = @ - 1,
                          !.looked = @ \cup {svc.engine},
                          !.drained = IF svc.http = "draining"
                                      THEN @ \cup {"http"} ELSE @]
    /\ serviceFrame

\* An RPC reaches the gRPC handler.
GrpcRequestArrives ==
    /\ Running
    /\ svc.grpc = "serving"
    /\ svc.gIn < MaxInFlight
    /\ svc' = [svc EXCEPT !.gIn = @ + 1]
    /\ serviceFrame

\* The gRPC handler calls lookup.LookupCountry and answers.
GrpcRequestCompletes ==
    /\ Running
    /\ svc.gIn > 0
    /\ svc' = [svc EXCEPT !.gIn = @ - 1,
                          !.looked = @ \cup {svc.engine},
                          !.drained = IF svc.grpc = "draining"
                                      THEN @ \cup {"grpc"} ELSE @]
    /\ serviceFrame

ServiceInit ==
    /\ EngineInit
    /\ hreq = NoRequest
    /\ hlk = NoLookup
    /\ hresp = NoResponse
    /\ gresp = NoGrpcReturn
    /\ readyFn = "wired"
    /\ hready = NoProbe
    /\ hhealth = NoProbe
    /\ svc \in {ServiceStart(path) : path \in {"unset", "set"}}

ServiceNext ==
    \/ MainGetenv
    \/ MainNewMmdbReader
    \/ MainListen
    \/ HttpListenAndServe
    \/ GrpcServe
    \/ GrpcServeFails
    \/ MainNotify
    \/ SignalArrives
    \/ MainQuit
    \/ MainGracefulStopBegin
    \/ MainGracefulStopReturn
    \/ MainShutdownBegin
    \/ MainShutdownReturn
    \/ MainShutdownTimeout
    \/ MainDeferredClose
    \/ MainExit
    \/ HttpRequestArrives
    \/ HttpRequestCompletes
    \/ GrpcRequestArrives
    \/ GrpcRequestCompletes

ServiceSpec == ServiceInit /\ [][ServiceNext]_vars

TypeOK ==
    /\ file \in FileStates
    /\ nReplace \in 0 .. MaxReplace
    /\ content \in [Handles -> Contents \cup {"none"}]
    /\ rel \in [Handles -> 0 .. 2]
    /\ nOpened \in 0 .. (MaxReplace + 1)
    /\ db \in {NoHandle} \cup Handles
    /\ Len(events) <= MaxPending
    /\ errs \in BOOLEAN
    /\ wNew \in {NoHandle} \cup Handles
    /\ wOld \in {NoHandle} \cup Handles
    /\ cH \in {NoHandle} \cup Handles
    /\ owed \in {0, 1}
    /\ svc.hIn \in 0 .. MaxInFlight
    /\ svc.gIn \in 0 .. MaxInFlight


\* ------------------------------------------------------------------ claims
Returned == ret.kind # "none"
WatcherRunning == wpc \notin {"none", "exited", "killed"}
CloseNotCalled == cpc = "idle"

\* C1: once NewMmdbReader has returned an engine, the slot never holds nil or
\* a handle that was not opened, and as long as Close has not been called the
\* handle in the slot is open: it is the one opened last and not released.
C1_SlotHoldsOpenHandle ==
    ctor = "ready" =>
        /\ db \in Handles
        /\ content[db] # "none"
        /\ db = nOpened \/ (db = nOpened - 1 /\ wpc = "swap")
        /\ CloseNotCalled => rel[db] = 0

\* A reload has swapped in the second handle and released the first.
C1_Witness ==
    /\ ctor = "ready" /\ CloseNotCalled
    /\ db = 2 /\ rel[1] = 1 /\ rel[2] = 0 /\ wpc = "select"

\* C2: the step in which reload's open fails leaves the slot and every handle
\* as they were, so the handle that was active still is and is still open.
C2_FailedReloadLeavesHandle ==
    [][(wpc = "reload" /\ wpc' = "select") =>
          /\ db' = db
          /\ rel' = rel
          /\ content' = content
          /\ CloseNotCalled => (rel[db] = 0)' ]_vars

\* The only replacement put an invalid file in place under the watch, its
\* event was taken and reload failed; a lookup has just been answered by the
\* initial handle.
C2_Witness ==
    /\ file = "invalid" /\ replWatched /\ nReplace = 1
    /\ events = <<>> /\ wpc = "select" /\ nOpened = 1
    /\ db = 1 /\ rel[1] = 0
    /\ ret.kind = "ok" /\ ret.h = 1 /\ ret.country = "GB"

\* C3 (as claimed): while Close has not been called, no LookupCountry call
\* that has read a handle from the slot holds a released handle, and no call
\* returns an error or faults.
C3_NoQueryOnReleasedHandle ==
    CloseNotCalled =>
        /\ \A i \in Callers : q[i].pc = "loaded" => rel[q[i].h] = 0
        /\ Returned => ret.kind = "ok"

\* C4: the step in which a call reads the slot gives it the handle the slot
\* holds at that moment, and the slot only ever changes to a handle opened
\* after the one it held, never back to a superseded one; so a call whose
\* read comes after a swap has read the new handle or a later one.
C4_ReadsNewHandleAfterSwap ==
    [][/\ \A i \in Callers :
             (q[i].pc = "idle" /\ q'[i].pc = "loaded") => q'[i].h = db
       /\ db' # db => (db' > db /\ rel[db'] = 0)]_vars

\* A call has read the new handle after the swap, while the superseded
\* handle is not yet released.
C4_Witness ==
    \E i \in Callers :
        q[i].pc = "loaded" /\ q[i].h = 2 /\ db = 2 /\ wpc = "release" /\ rel[1] = 0

\* C5: a returning call has read the slot once, and what it returns comes
\* from the handle it read: on success the code that handle's database holds
\* for the address, on failure no code at all.
C5_AnswerFromSingleHandle ==
    Returned =>
        /\ ret.loads = 1
        /\ ret.kind = "ok" => ret.country = IsoCode(content[ret.h], ret.ip)
        /\ ret.kind # "ok" => ret.country = ""

\* A call that read the old handle returns that handle's answer while the
\* slot already holds a handle with different data for the address.
C5_Witness ==
    /\ ret.kind = "ok" /\ ret.h = 1 /\ db = 2
    /\ ret.country = IsoCode(content[1], ret.ip)
    /\ ret.country # IsoCode(content[2], ret.ip)

\* C6: if from some point on the file is a valid database put in place under
\* the watch and never replaced again, and the watcher goroutine keeps
\* running, then from some point on the active handle is one opened from it.
C6_ReloadEventuallyHappens ==
    <>[](file \in Contents /\ replWatched /\ WatcherRunning)
        => <>[](db # NoHandle /\ content[db] = file)

\* The file was replaced under the watch and the active handle is a second
\* one, opened from the new file, which differs from the initial one.
C6_Witness ==
    /\ replWatched /\ file \in Contents /\ wpc = "select"
    /\ db = 2 /\ content[2] = file /\ content[1] # file

\* C7 (as claimed): when every file put in place has the same content, every
\* call returns what that content gives for the address, without a failure
\* caused by the reload.
C7_IdenticalReplacementInvisible ==
    \A c \in Contents :
        (/\ CloseNotCalled
         /\ Returned
         /\ \A h \in Handles : content[h] \in {"none", c})
        => /\ ret.kind = Country(c, ret.ip).kind
           /\ ret.country = Country(c, ret.ip).iso

\* C8: a call that queried the handle that was active, for an address its
\* database has a record for, returns that record's non-empty code and no error.
C8_KnownAddressAnswered ==
    (Returned /\ ret.active /\ HasRecord(content[ret.h], ret.ip)) =>
        /\ ret.kind = "ok"
        /\ ret.country = IsoCode(content[ret.h], ret.ip)
        /\ ret.country # ""

\* An IPv6 address is answered by the active handle.
C8_Witness ==
    ret.active /\ ret.ip = IPv6Known /\ ret.kind = "ok" /\ ret.country = "JP"

\* C9 (as claimed): LookupCountry never returns an empty country code
\* together with a nil error.
C9_NoEmptyCodeWithoutError ==
    ret.kind = "ok" => ret.country # ""

\* C10: when NewMmdbReader failed to open the database, no engine exists (no
\* handle, empty slot, no caller inside the engine), no watcher was created
\* and no goroutine was started.
C10_FailedOpenLeavesNothing ==
    ctor = "failed" =>
        /\ db = NoHandle /\ nOpened = 0
        /\ wstate = "none" /\ ~chOpen
        /\ wpc = "none"
        /\ \A i \in Callers : q[i].pc = "idle"

\* Construction failed on a missing file; a valid file put there afterwards
\* is watched by nobody.
C10_Witness ==
    /\ ctor = "failed" /\ nReplace = 1 /\ file \in Contents
    /\ ~replWatched /\ events = <<>>

\* C11: when the database opened but the watch could not be established
\* (no goroutine was ever spawned), the engine is usable without hot-reload:
\* no watcher is left open and no event is ever queued, the slot holds the
\* initial handle for good, a call on the active handle is answered from it,
\* and Close releases exactly that handle.
C11_UnwatchedEngineUsable ==
    (ctor = "ready" /\ wpc = "none") =>
        /\ wstate \in {"none", "closed"}
        /\ ~chOpen /\ events = <<>> /\ ~errs
        /\ db = 1 /\ nOpened = 1 /\ wNew = NoHandle /\ wOld = NoHandle
        /\ CloseNotCalled => rel[1] = 0
        /\ (Returned /\ ret.active) =>
              /\ ret.h = 1
              /\ ret.kind = "ok"
              /\ ret.country = IsoCode(content[1], ret.ip)
        /\ cret.kind = "returned" => (cret.h = 1 /\ rel[1] = 1)

\* The file was replaced by a different database after the watch failed, and
\* a call is still answered from the initial handle.
C11_Witness ==
    /\ ctor = "ready" /\ wpc = "none" /\ wstate = "closed"
    /\ nReplace = 1 /\ file \in Contents /\ file # content[1]
    /\ ret.kind = "ok" /\ ret.active
    /\ ret.country = IsoCode(content[1], ret.ip)

\* C12: once Close has signalled a running watcher, the loop eventually
\* terminates, whether or not any further event arrives, and by then the
\* directory watch is released.
C12_WatcherStopsAfterClose ==
    (done /\ WatcherRunning) ~> (~WatcherRunning /\ wstate = "closed" /\ ~chOpen)

\* Close returned, no file event ever happened, and the loop has exited on
\* the stop signal with the watch released.
C12_Witness ==
    /\ cpc = "returned" /\ done
    /\ nReplace = 0 /\ nOpened = 1
    /\ wpc = "exited" /\ wstate = "closed"

\* C13: Close first signals the watcher, which releases nothing and cannot
\* fail; then it reads the slot and releases the handle it read; the step in
\* which Close returns releases exactly that handle, and Close returns an
\* error exactly when that release failed.
C13_CloseSignalsThenReleases ==
    [][ /\ (cpc = "idle" /\ cpc' # "idle") =>
              (cpc' = "signalled" /\ done' /\ rel' = rel /\ cret'.kind = "none")
        /\ (cpc = "signalled" /\ cpc' # "signalled") =>
              (cpc' = "loaded" /\ done /\ cH' = db /\ rel' = rel /\ cret'.kind = "none")
        /\ (cpc = "loaded" /\ cpc' # "loaded") =>
              /\ cpc' = "returned"
              /\ cret'.kind = "returned" /\ cret'.h = cH
              /\ rel'[cH] = IF rel[cH] < 2 THEN rel[cH] + 1 ELSE 2
              /\ \A h \in Handles \ {cH} : rel'[h] = rel[h]
              /\ cret'.err <=> cret'.failed
        /\ cret'.kind = "returned" => cpc = "loaded"
      ]_vars

\* Close has just returned the error of a failed release while the watcher is
\* still running.
C13_Witness ==
    /\ cret.kind = "returned" /\ cret.failed /\ cret.err
    /\ cpc = "returned" /\ rel[cret.h] = 1
    /\ WatcherRunning

\* C14: Close never waits: on a constructed engine it can start, and each
\* of its steps can be taken in every state, whatever the watcher, a reload
\* in progress or calls in flight are doing.
C14_CloseNeverWaits ==
    /\ (ctor = "ready" /\ cpc = "idle") => ENABLED CloseSignal
    /\ cpc = "signalled" => ENABLED CloseLoad
    /\ cpc = "loaded" => ENABLED CloseRelease

\* Close has returned while a reload is in progress and a call is in flight.
C14_Witness ==
    /\ cpc = "returned"
    /\ wpc \in {"reload", "swap", "release"}
    /\ \E i \in Callers : q[i].pc = "loaded"

\* C15: a second Close has a defined outcome and never crashes the process.
C15_SecondCloseDefined == cpc # "panicked"

\* C16: once Close has returned, no reload opens a new handle or swaps the
\* slot.
C16_NoReloadAfterClose ==
    [][cpc = "returned" => (nOpened' = nOpened /\ db' = db)]_vars

Answered == hresp.status # 0

\* The body is well-formed: it binds and its ip parses.
WellFormed(b) == ShouldBindJSON(b) /\ ParseIP(b.ip) # NilIP

\* The body is JSON with an ip that does not parse as an IP address.
IPUnparsable(b) == b.json /\ b.hasIP /\ ParseIP(b.ip) = NilIP

\* The body is not valid JSON, lacks ip, lacks allowed_countries or has it
\* empty, or has an ip that does not parse.
BadRequest(b) ==
    \/ ~b.json
    \/ ~b.hasIP
    \/ ~b.hasAllowed
    \/ Len(b.allowed) = 0
    \/ IPUnparsable(b)

\* C18 as stated: a bad request is answered 400 without a LookupCountry
\* call, and every request whose ip does not parse carries the error
\* "invalid IP address".
C18_UnparsableAlwaysInvalidIP ==
    (Answered /\ BadRequest(hreq)) =>
        /\ hresp.status = 400
        /\ hresp.calls = 0
        /\ IPUnparsable(hreq) => hresp.error = "invalid IP address"

\* C18 amended: a bad request is answered 400 without a LookupCountry call;
\* the error is "invalid IP address" exactly when the body binds (valid JSON,
\* non-empty ip, non-empty allowed_countries) and its ip does not parse, and
\* is the binding error otherwise.
C18_BadRequestRejected ==
    (Answered /\ BadRequest(hreq)) =>
        /\ hresp.status = 400
        /\ hresp.calls = 0
        /\ ~hresp.allowed /\ hresp.country = ""
        /\ hresp.error = "invalid IP address"
              <=> (ShouldBindJSON(hreq) /\ ParseIP(hreq.ip) = NilIP)
        /\ hresp.error # "invalid IP address"
              => hresp.error = "invalid request: binding"

\* A body that binds but whose ip does not parse was answered 400 "invalid
\* IP address" without a lookup.
C18_Witness ==
    /\ hreq.json /\ hreq.hasIP /\ hreq.ip = "not-an-ip"
    /\ hreq.hasAllowed /\ hreq.allowed = <<"US">>
    /\ hresp.status = 400 /\ hresp.error = "invalid IP address"
    /\ hresp.calls = 0

\* C19: for a well-formed request, a LookupCountry error is answered 500
\* "lookup failed" with allowed false and an empty country.
C19_LookupErrorIs500 ==
    (Answered /\ WellFormed(hreq) /\ hlk.err) =>
        /\ hresp.status = 500
        /\ hresp.error = "lookup failed"
        /\ ~hresp.allowed
        /\ hresp.country = ""

\* The lookup returned an error together with a country on the allowed list.
C19_Witness ==
    /\ WellFormed(hreq) /\ hreq.allowed = <<"US">>
    /\ hlk.err /\ hlk.country = "US"
    /\ hresp.status = 500 /\ hresp.calls = 1

\* C20: for a well-formed request whose lookup succeeds with country c, the
\* answer is 200 with country c, an empty error, and allowed true exactly
\* when c is an element of allowed_countries, for IPv4 and IPv6 alike.
C20_SuccessIsMembership ==
    (Answered /\ WellFormed(hreq) /\ ~hlk.err) =>
        /\ hresp.status = 200
        /\ hresp.country = hlk.country
        /\ hresp.error = ""
        /\ hresp.allowed <=>
              hlk.country \in {hreq.allowed[k] : k \in 1 .. Len(hreq.allowed)}
        /\ hresp.calls = 1

\* An IPv6 request is allowed by the second element of its list.
C20_Witness ==
    /\ WellFormed(hreq) /\ ParseIP(hreq.ip).family = 6
    /\ hreq.allowed = <<"US", "CA">>
    /\ ~hlk.err /\ hlk.country = "CA"
    /\ hresp.status = 200 /\ hresp.allowed /\ hresp.country = "CA"

GrpcReturned == gresp.code # "none"

\* The request Check was handed, and whether it is well-formed.
GReq == GrpcRequest(hreq)
GrpcWellFormed ==
    /\ ~GReq.nil /\ GReq.Ip # "" /\ Len(GReq.AllowedCountries) > 0
    /\ ParseIP(GReq.Ip) # NilIP

\* The request strings that are the text of an IPv4 or IPv6 address.
IPLiterals == {"1.2.3.4", "2001:db8::1"}

\* C21: a nil request, an empty ip, an empty allowed_countries list or an ip
\* that does not parse is answered InvalidArgument, with no response and
\* without a LookupCountry call.
C21_GrpcBadRequestRejected ==
    (GrpcReturned /\ (\/ GReq.nil
                      \/ GReq.Ip = ""
                      \/ Len(GReq.AllowedCountries) = 0
                      \/ GReq.Ip \notin IPLiterals)) =>
        /\ gresp.code = "InvalidArgument"
        /\ ~gresp.hasResp
        /\ gresp.calls = 0

\* A request with an ip that does not parse and a non-empty list was refused.
C21_Witness ==
    /\ ~GReq.nil /\ GReq.Ip = "not-an-ip" /\ GReq.AllowedCountries = <<"US">>
    /\ gresp.code = "InvalidArgument" /\ gresp.message = "invalid IP address"
    /\ gresp.calls = 0

\* C22: for a well-formed request a lookup error or an empty country is
\* answered Internal with no response; no successful response has an empty
\* country.
C22_GrpcLookupFailureIsInternal ==
    /\ (GrpcReturned /\ GrpcWellFormed /\ (hlk.err \/ hlk.country = "")) =>
          (gresp.code = "Internal" /\ ~gresp.hasResp)
    /\ (GrpcReturned /\ gresp.code = "OK") =>
          (gresp.hasResp /\ gresp.country # "")

\* The lookup gave an empty country and no error, and Check returned Internal.
C22_Witness ==
    /\ GrpcWellFormed /\ ~hlk.err /\ hlk.country = ""
    /\ gresp.code = "Internal" /\ ~gresp.hasResp /\ gresp.calls = 1

\* C23: for a well-formed request whose lookup succeeds with a non-empty
\* country c, the response has Country c, an empty Error, and Allowed true
\* exactly when c is an element of AllowedCountries.
C23_GrpcSuccessIsMembership ==
    (GrpcReturned /\ GrpcWellFormed /\ ~hlk.err /\ hlk.country # "") =>
        /\ gresp.code = "OK" /\ gresp.hasResp
        /\ gresp.country = hlk.country
        /\ gresp.error = ""
        /\ gresp.allowed <=>
              hlk.country \in {GReq.AllowedCountries[k] :
                                 k \in 1 .. Len(GReq.AllowedCountries)}

\* The list holds the country in other letter case only, and it is denied.
C23_Witness ==
    /\ GrpcWellFormed /\ GReq.AllowedCountries = <<"us">>
    /\ ~hlk.err /\ hlk.country = "US"
    /\ gresp.code = "OK" /\ ~gresp.allowed /\ gresp.country = "US"

\* The outcome class of each handler's answer.
RestClass ==
    CASE hresp.status = 200 -> "success"
      [] hresp.status = 400 -> "client error"
      [] OTHER              -> "internal failure"
GrpcClass ==
    CASE gresp.code = "OK"              -> "success"
      [] gresp.code = "InvalidArgument" -> "client error"
      [] OTHER                          -> "internal failure"

\* C24: on the same request and the same CountryLookup the REST and the
\* gRPC handler agree on the outcome class and, on success, on allowed and
\* country.
C24_HandlersAgree ==
    (Answered /\ GrpcReturned) =>
        /\ RestClass = GrpcClass
        /\ RestClass = "success" =>
              (hresp.allowed = gresp.allowed /\ hresp.country = gresp.country)

ReadyAnswered == hready.status # 0
HealthAnswered == hhealth.status # 0

\* C25: GET /ready answers 503 "not ready" exactly when a readiness
\* function is configured and returns an error, and 200 "ready" otherwise;
\* with the function main wires, that is exactly when the lookup of the
\* sentinel address fails.
C25_ReadyFollowsReadinessFunction ==
    ReadyAnswered =>
        /\ hready \in {[status |-> 503, body |-> "not ready"],
                        [status |-> 200, body |-> "ready"]}
        /\ hready.status = 503 <=>
              (readyFn # "nil" /\ ReadyFnFails(readyFn, hlk))
        /\ readyFn = "nil" => hready.status = 200
        /\ readyFn = "wired" => (hready.status = 503 <=> hlk.err)

\* The wired readiness function met a failing lookup and the probe answered
\* not ready.
C25_Witness ==
    /\ readyFn = "wired" /\ hlk.err
    /\ hready = [status |-> 503, body |-> "not ready"]

\* C26: GET /health answers 200 "ok" whatever the readiness function and
\* the lookup behind the service do.
C26_HealthAlwaysOk ==
    /\ HealthAnswered => hhealth = [status |-> 200, body |-> "ok"]
    /\ ~HealthAnswered => ENABLED HealthProbe

\* The service is not ready and its lookup fails, and /health answered ok.
C26_Witness ==
    /\ readyFn = "wired" /\ hlk.err /\ hready.status = 503
    /\ hhealth = [status |-> 200, body |-> "ok"]

\* C27: a successful reload opens the new handle, then swaps the slot, then
\* releases the old handle: opening and swapping release nothing, the swap
\* stores the new handle and remembers the displaced one, the last step
\* releases exactly the displaced handle, which is no longer in the slot,
\* and the watcher releases a handle in no other step.
C27_ReloadOpensSwapsReleases ==
    [][ /\ (wpc = "reload" /\ wpc' = "swap") =>
              /\ nOpened' = nOpened + 1 /\ wNew' = nOpened'
              /\ db' = db /\ rel' = rel
        /\ (wpc = "swap" /\ wpc' = "release") =>
              /\ db' = wNew /\ wOld' = db
              /\ nOpened' = nOpened /\ rel' = rel
        /\ (wpc = "release" /\ wpc' = "select") =>
              /\ wOld # db /\ db' = db
              /\ rel'[wOld] = IF rel[wOld] < 2 THEN rel[wOld] + 1 ELSE 2
              /\ \A h \in Handles \ {wOld} : rel'[h] = rel[h]
        /\ (rel' # rel /\ cpc' = cpc) => (wpc = "release" /\ wpc' = "select")
        /\ wpc' = "swap" => wpc \in {"reload", "swap"}
        /\ wpc' = "release" => wpc \in {"swap", "release"}
      ]_vars

\* The swap is done and the displaced handle is not yet released.
C27_Witness ==
    /\ wpc = "release" /\ wOld = 1 /\ wNew = 2 /\ db = 2
    /\ rel[1] = 0 /\ rel[2] = 0 /\ CloseNotCalled

\* The loop receives the event at the head of watcher.Events.
Receive ==
    /\ wpc = "select" /\ events # <<>>
    /\ events' = Tail(events)
    /\ wpc' \in {"select", "reload"}

\* C28: the events kept as "other" are exactly those that are not a create
\* or write of the base name; the loop enters reload only on receiving a
\* create or write of the base name, and receiving any other event leaves
\* the loop waiting, the slot unchanged and no file opened.
C28_OnlyMatchingEventsReload ==
    [][ /\ \A o \in Ops, name \in FileNames :
              Event(o, name) \in OtherEvents
                  <=> ~(name = BaseName /\ o \in {"create", "write"})
        /\ (wpc # "reload" /\ wpc' = "reload") =>
              (Receive /\ Head(events) = "replaced")
        /\ Receive => (db' = db /\ nOpened' = nOpened /\ content' = content)
        /\ (Receive /\ Head(events) = "other") =>
              (wpc' = "select" /\ owed' = owed)
      ]_vars

\* One reload has happened on a matching event, and an event of another
\* kind is waiting to be received.
C28_Witness ==
    /\ wpc = "select" /\ db = 2 /\ nOpened = 2
    /\ events = <<"other">>

\* C29: the open attempts of the watcher never exceed the matching events it
\* received; one attempt is owed exactly while reload is about to open the
\* file, and once the attempt is made, failed or not, none is owed until a
\* new matching event is received.
C29_OneAttemptPerEvent ==
    /\ owed >= 0
    /\ wpc = "reload" => owed = 1
    /\ wpc \in {"none", "select", "swap", "release", "exited"} => owed = 0

\* A replacement by an invalid file was tried once and the loop waits again.
C29_Witness ==
    /\ file = "invalid" /\ replWatched /\ nReplace = 1
    /\ wpc = "select" /\ events = <<>> /\ owed = 0
    /\ nOpened = 1 /\ db = 1

\* C30: the slot changes only when NewMmdbReader stores the first handle
\* and when reload swaps in the handle it opened.
C30_SlotWrittenByOpenAndReload ==
    [][ db' # db =>
          \/ ctor = "idle" /\ ctor' = "opened" /\ db = NoHandle /\ db' = 1
          \/ wpc = "swap" /\ wpc' = "release" /\ db' = wNew
      ]_vars

\* Close has returned, a reload has failed and a call has been answered,
\* and the slot still holds the initial handle.
C30_Witness ==
    /\ cpc = "returned" /\ file = "invalid" /\ replWatched
    /\ wpc = "select" /\ events = <<>>
    /\ db = 1 /\ nOpened = 1 /\ Returned

\* C31: once the stop signal is raised while a reload is in progress, the
\* watcher does not carry the reload on: its next step is to exit.
C31_StopAbandonsReload ==
    [][ (done /\ wpc \in {"reload", "swap", "release"} /\ wpc' # wpc) =>
          wpc' \in {"exited", "killed"}
      ]_vars

\* C33: when Close has returned and the watcher goroutine is gone, every
\* handle that was opened has been released exactly once.
C33_EveryHandleReleasedOnce ==
    (cpc = "returned" /\ wpc \in {"none", "exited"}) =>
        \A h \in Handles : content[h] # "none" => rel[h] = 1

\* C34: Close never releases a handle that a LookupCountry call in flight
\* has loaded and has yet to query.
C34_CloseSparesCallsInFlight ==
    [][ cret'.kind = "returned" =>
          \A i \in Callers : q[i].pc = "loaded" => q[i].h # cret'.h
      ]_vars

\* C32: when the file has been replaced without any event being delivered
\* to a running watcher, the change is still detected: the slot eventually
\* holds a handle opened from the file as it now is.
C32_UnseenReplacementDetected ==
    <>[](file \in Contents /\ nReplace > 0 /\ ~replWatched /\ WatcherRunning)
        => <>[](db # NoHandle /\ content[db] = file)

C36_WatcherFailuresAbsorbed ==
    /\ [][ /\ ( (wpc = "select" /\ errs /\ ~errs' /\ ~done /\ chOpen)
                => ( /\ wpc' = "select" /\ wstate' = wstate /\ events' = events
                     /\ db' = db /\ rel' = rel /\ nOpened' = nOpened ) )
           /\ ( (wpc = "select" /\ wpc' = "exited")
                => ( /\ done \/ ~chOpen
                     /\ db' = db /\ rel' = rel /\ nOpened' = nOpened ) )
           /\ ( wpc = "exited" => (db' = db /\ nOpened' = nOpened) )
         ]_vars
    /\ []((wpc = "exited" /\ Returned /\ ret.active) =>
            ( /\ ret.kind = "ok" /\ ret.h = db
              /\ ret.country = IsoCode(content[db], ret.ip) ))

\* The channels were closed, the loop has exited without Close, and a call
\* has been answered by the active handle.
C36_Witness ==
    /\ wpc = "exited" /\ ~done /\ wstate = "closed"
    /\ ret.kind = "ok" /\ ret.active /\ ret.h = db

\* C37: the engine is closed only once the signal has been taken from quit,
\* both servers have stopped serving and no request is in flight; GracefulStop
\* has finished before Shutdown starts; Shutdown returns normally only with no
\* request in flight, so a process that ends with status 0 has cut off no
\* request; and no handler has called LookupCountry on a closed engine.
C37_CloseAfterServersStopped ==
    /\ svc.engine = "closed" =>
          /\ svc.sig = "taken"
          /\ svc.http = "stopped"
          /\ svc.grpc \in {"stopped", "unserved"}
          /\ svc.hIn = 0 /\ svc.gIn = 0
    /\ svc.pc \in {"shutdown", "shutdownWait", "deferred", "closed"} =>
          (svc.grpc \in {"stopped", "unserved"} /\ svc.gIn = 0)
    /\ svc.pc \in {"deferred", "closed"} => (svc.http = "stopped" /\ svc.hIn = 0)
    /\ svc.exit = "0" => (svc.engine = "closed" /\ svc.hIn = 0 /\ svc.gIn = 0)
    /\ "closed" \notin svc.looked

\* The engine has been closed after a shutdown during which a request of
\* each server was in flight and was answered.
C37_Witness ==
    /\ svc.engine = "closed"
    /\ svc.drained = {"http", "grpc"}
    /\ svc.looked = {"open"}

====
